---- MODULE Spec2Model ----
(***************************************************************************)
(* Model of the interpolator crate (src/src/lib.rs): the ClosedInterval    *)
(* type, the four leaf interpolators (Step, NearestNeighbor, Linear,       *)
(* Sigmoid), the PiecewiseInterpolator composite and the Interpolator      *)
(* trait operations eval, exceeds_domain and get_domain.                   *)
(*                                                                         *)
(* Numbers.  An f32 is modelled as an exact extended rational <<n, d>>     *)
(* in lowest terms: d > 0 is the finite value n/d, <<1,0>> and <<-1,0>>    *)
(* are the infinities a division by zero produces and <<0,0>> is NaN.      *)
(* Comparisons and arithmetic follow IEEE-754 for NaN (every ordered       *)
(* comparison with NaN is false, != is true, arithmetic propagates it).    *)
(* Rounding is not modelled: arithmetic is exact.  The logistic function   *)
(* is kept symbolic (see sigmoid).                                         *)
(*                                                                         *)
(* Callers.  The caller owns a Vec of interpolators (held), constructs     *)
(* leaves into it, moves its newest ones into PiecewiseInterpolator::new   *)
(* and calls eval, exceeds_domain and get_domain on the newest.  It gives  *)
(* the constructors finite bounds; eval and exceeds_domain are also given  *)
(* NaN.  A panic unwinds to the caller, which goes on.                     *)
(***************************************************************************)
EXTENDS Integers, Sequences, FiniteSets, TLC

\* ---------------------------------------------------------------- bounds
\* Domain bounds given to the constructors are the integers 0..MaxVal.
MaxVal == 2
\* Number of interpolators the caller holds at once (the Vec it is filling).
MaxHeld == 2
\* Total number of interpolator nodes (leaves and composites) the caller holds.
MaxNodes == 4
\* Lines the model lets the process write to standard output.
MaxOut == 2

\* ------------------------------------------------------- f32 arithmetic
NaN == <<0, 0>>
Zero == <<0, 1>>

Abs(n) == IF n < 0 THEN -n ELSE n

Sign(n) == IF n < 0 THEN -1 ELSE IF n > 0 THEN 1 ELSE 0

RECURSIVE GCD(_, _)
GCD(a, b) == IF b = 0 THEN a ELSE GCD(b, a % b)

\* The extended rational n/d in lowest terms, with a positive denominator.
Norm(n, d) ==
    IF d = 0 THEN <<Sign(n), 0>>
    ELSE LET g == GCD(Abs(n), Abs(d))
             s == IF d < 0 THEN -1 ELSE 1
         IN <<(s * n) \div g, (s * d) \div g>>

\* The f32 with the integer value n.
Num(n) == <<n, 1>>

IsNaN(a) == a = NaN

\* a + b
Add(a, b) ==
    IF a[2] = 0 /\ b[2] = 0
    THEN (IF a = b THEN a ELSE NaN)
    ELSE Norm(a[1] * b[2] + b[1] * a[2], a[2] * b[2])

\* a - b
Sub(a, b) == Add(a, <<-b[1], b[2]>>)

\* a * b
Mul(a, b) == Norm(a[1] * b[1], a[2] * b[2])

\* a / b  (x/0 is an infinity, 0/0 is NaN)
Div(a, b) == Mul(a, Norm(b[2], b[1]))

\* a <= b, false when either is NaN
Le(a, b) ==
    /\ ~IsNaN(a)
    /\ ~IsNaN(b)
    /\ IF a[2] = 0 /\ b[2] = 0 THEN a[1] <= b[1]
       ELSE a[1] * b[2] <= b[1] * a[2]

\* a >= b
Ge(a, b) == Le(b, a)

\* a < b
Lt(a, b) == Le(a, b) /\ a # b

\* a != b, true when either is NaN
Ne(a, b) == IsNaN(a) \/ IsNaN(b) \/ a # b

\* ------------------------------------------------------- values of eval
\* The value  num + scale * sigmoid(arg).  A plain f32 has scale = 0.
F(q) == [num |-> q, scale |-> Zero, arg |-> Zero]

\* SigmoidInterpolator::eval's inner fn sigmoid: 1.0 / (1.0 + E.powf(-x)).
\* E.powf(-0.0) is 1, so sigmoid(0) is 1/2; any other argument stays symbolic.
sigmoid(x) ==
    IF IsNaN(x) THEN F(NaN)
    ELSE IF x = Zero THEN F(<<1, 2>>)
    ELSE [num |-> Zero, scale |-> Num(1), arg |-> x]

\* s * len + lo  for s a result of sigmoid.
ScaleAdd(s, len, lo) ==
    IF s.scale = Zero THEN F(Add(Mul(s.num, len), lo))
    ELSE IF IsNaN(len) \/ IsNaN(lo) THEN F(NaN)
    ELSE IF len = Zero THEN F(lo)
    ELSE [num |-> lo, scale |-> len, arg |-> s.arg]

\* ------------------------------------------------------------- panics
NoPanic == ""
InvalidInterval == "Invalid interval"
NoInterpolators == "Need at least one interpolator."
DiscontinuousDomain == "Combined domains are not closed."
NoDomainContained == "No interpolator domain contained x."

\* A call that returned v, having written the lines out to standard output.
Returned(v, out) == [val |-> v, out |-> out, panic |-> NoPanic]

\* A call that panicked with msg.
Panicked(msg, out) == [val |-> F(NaN), out |-> out, panic |-> msg]

\* ------------------------------------------------------ ClosedInterval
ClosedInterval_new(bound) ==
    [bound |-> bound, length |-> Sub(bound[2], bound[1])]

\* TRUE iff check_bound panics.
check_bound(iv) == Ge(iv.bound[1], iv.bound[2])

contains(iv, x) == Ge(x, iv.bound[1]) /\ Le(x, iv.bound[2])

\* ---------------------------------------------------- leaf constructors
\* Each returns [panic, val]: the panic message, or the constructed struct.
StepInterpolator_new(domain, range) ==
    LET domain_interval == ClosedInterval_new(domain)
        range_interval == ClosedInterval_new(range)
    IN IF check_bound(domain_interval)
       THEN [panic |-> InvalidInterval]
       ELSE [val |-> [domain |-> domain_interval,
                      range |-> range_interval,
                      kind |-> "Step"],
             panic |-> NoPanic]

NearestNeighborInterpolator_new(domain, range) ==
    LET domain_interval == ClosedInterval_new(domain)
        range_interval == ClosedInterval_new(range)
        midpoint == Add(Div(Sub(domain_interval.bound[2],
                                domain_interval.bound[1]), Num(2)),
                        domain_interval.bound[1])
    IN IF check_bound(domain_interval)
       THEN [panic |-> InvalidInterval]
       ELSE [val |-> [domain |-> domain_interval,
                      range |-> range_interval,
                      kind |-> "NearestNeighbor",
                      midpoint |-> midpoint],
             panic |-> NoPanic]

\* LinearInterpolator::new never calls check_bound.
LinearInterpolator_new(domain, range) ==
    LET domain_interval == ClosedInterval_new(domain)
        range_interval == ClosedInterval_new(range)
        slope == Div(range_interval.length, domain_interval.length)
    IN [val |-> [domain |-> domain_interval,
                 range |-> range_interval,
                 kind |-> "Linear",
                 slope |-> slope],
        panic |-> NoPanic]

SigmoidInterpolator_new(domain, range) ==
    LET domain_interval == ClosedInterval_new(domain)
        range_interval == ClosedInterval_new(range)
    IN IF check_bound(domain_interval)
       THEN [panic |-> InvalidInterval]
       ELSE [val |-> [domain |-> domain_interval,
                      range |-> range_interval,
                      kind |-> "Sigmoid"],
             panic |-> NoPanic]

\* ------------------------------------------------- Interpolator trait
\* get_domain clones the domain field, for every variant.
get_domain(self) == self.domain

\* exceeds_domain is  x >= self.domain.bound.1  for every variant.
exceeds_domain(self, x) == Ge(x, self.domain.bound[2])

StepInterpolator_eval(self, x) ==
    IF Le(x, self.domain.bound[1])
    THEN F(self.range.bound[1])
    ELSE F(self.range.bound[2])

NearestNeighborInterpolator_eval(self, x) ==
    IF Le(x, self.midpoint)
    THEN F(self.range.bound[1])
    ELSE F(self.range.bound[2])

\* LinearInterpolator::eval with the offset range.bound.0 left out of the
\* interpolated value.
LinearInterpolator_eval_NoOffset(self, x) ==
    IF Le(x, self.domain.bound[1]) THEN F(self.range.bound[1])
    ELSE IF Ge(x, self.domain.bound[2]) THEN F(self.range.bound[2])
    ELSE F(Mul(Sub(x, self.domain.bound[1]), self.slope))

LinearInterpolator_eval(self, x) ==
    IF Le(x, self.domain.bound[1]) THEN F(self.range.bound[1])
    ELSE IF Ge(x, self.domain.bound[2]) THEN F(self.range.bound[2])
    ELSE F(Add(Mul(Sub(x, self.domain.bound[1]), self.slope),
               self.range.bound[1]))

SigmoidInterpolator_eval(self, x) ==
    IF Le(x, self.domain.bound[1]) THEN F(self.range.bound[1])
    ELSE IF Ge(x, self.domain.bound[2]) THEN F(self.range.bound[2])
    ELSE LET x_prime == Sub(Mul(Div(Sub(x, self.domain.bound[1]),
                                    self.domain.length), Num(8)), Num(4))
         IN ScaleAdd(sigmoid(x_prime), self.range.length,
                     self.range.bound[1])

\* ------------------------------------------------ PiecewiseInterpolator
\* The loop of PiecewiseInterpolator::new with a check that rejects a gap
\* between two children's domains but lets them overlap.
RECURSIVE DomainsNotClosed_GapOnly(_, _, _)
DomainsNotClosed_GapOnly(interpolators, i, expected_left_bound) ==
    IF i > Len(interpolators) THEN FALSE
    ELSE IF /\ expected_left_bound # <<>>
            /\ Lt(expected_left_bound[1],
                  get_domain(interpolators[i]).bound[1])
         THEN TRUE
         ELSE DomainsNotClosed_GapOnly(interpolators, i + 1,
                                       <<get_domain(interpolators[i]).bound[2]>>)

\* The loop of PiecewiseInterpolator::new from its i-th iteration on, with
\* expected_left_bound an Option: <<>> is None, <<b>> is Some(b).
\* TRUE iff the loop panics.
RECURSIVE DomainsNotClosed(_, _, _)
DomainsNotClosed(interpolators, i, expected_left_bound) ==
    IF i > Len(interpolators) THEN FALSE
    ELSE IF /\ expected_left_bound # <<>>
            /\ Ne(expected_left_bound[1],
                  get_domain(interpolators[i]).bound[1])
         THEN TRUE
         ELSE DomainsNotClosed(interpolators, i + 1,
                               <<get_domain(interpolators[i]).bound[2]>>)

PiecewiseInterpolator_new(interpolators) ==
    IF Len(interpolators) = 0 THEN [panic |-> NoInterpolators]
    ELSE IF DomainsNotClosed(interpolators, 1, <<>>)
    THEN [panic |-> DiscontinuousDomain]
    ELSE [val |-> [domain |-> ClosedInterval_new(
                       <<get_domain(interpolators[1]).bound[1],
                         get_domain(interpolators[Len(interpolators)]).bound[2]>>),
                   kind |-> "Piecewise",
                   interpolators |-> interpolators],
          panic |-> NoPanic]

\* eval of any variant: [panic, val, out], out being the lines written to
\* standard output on the way.  PiecewiseInterpolator::eval prints x before
\* it scans its children, and panics when the scan finds none.
RECURSIVE eval(_, _)
RECURSIVE PiecewiseScan(_, _, _)

\* The scan of PiecewiseInterpolator::eval started at the second child.
RECURSIVE PiecewiseScan_SkipFirst(_, _, _)
PiecewiseScan_SkipFirst(interpolators, i, x) ==
    IF i = 1 THEN PiecewiseScan_SkipFirst(interpolators, 2, x)
    ELSE IF i > Len(interpolators) THEN Panicked(NoDomainContained, <<>>)
    ELSE IF contains(get_domain(interpolators[i]), x)
         THEN eval(interpolators[i], x)
         ELSE PiecewiseScan_SkipFirst(interpolators, i + 1, x)

PiecewiseScan(interpolators, i, x) ==
    IF i > Len(interpolators) THEN Panicked(NoDomainContained, <<>>)
    ELSE IF contains(get_domain(interpolators[i]), x)
         THEN eval(interpolators[i], x)
         ELSE PiecewiseScan(interpolators, i + 1, x)

PiecewiseInterpolator_eval(self, x) ==
    IF Le(x, self.domain.bound[1]) THEN eval(self.interpolators[1], x)
    ELSE IF Ge(x, self.domain.bound[2])
         THEN eval(self.interpolators[Len(self.interpolators)], x)
         ELSE LET r == PiecewiseScan(self.interpolators, 1, x)
              IN [r EXCEPT !.out = <<x>> \o r.out]

eval(self, x) ==
    CASE self.kind = "Step" ->
             Returned(StepInterpolator_eval(self, x), <<>>)
      [] self.kind = "NearestNeighbor" ->
             Returned(NearestNeighborInterpolator_eval(self, x), <<>>)
      [] self.kind = "Linear" ->
             Returned(LinearInterpolator_eval(self, x), <<>>)
      [] self.kind = "Sigmoid" ->
             Returned(SigmoidInterpolator_eval(self, x), <<>>)
      [] self.kind = "Piecewise" ->
             PiecewiseInterpolator_eval(self, x)

\* ------------------------------------------------------ the state machine
\* Number of nodes of an interpolator tree.
RECURSIVE Nodes(_)
RECURSIVE NodesOf(_, _)
NodesOf(s, i) == IF i > Len(s) THEN 0 ELSE Nodes(s[i]) + NodesOf(s, i + 1)
Nodes(t) == IF t.kind = "Piecewise" THEN 1 + NodesOf(t.interpolators, 1) ELSE 1

\* Inputs the caller draws from.  Domain bounds are the integers 0..MaxVal;
\* eval is tried at every half-integer from -1/2 to MaxVal + 1/2 and at NaN.
DomainVals == {Num(n) : n \in 0..MaxVal}
RangePairs == {<<Num(10), Num(20)>>, <<Num(20), Num(10)>>, <<Num(10), Num(10)>>}
ComposeRanges == {<<Num(10), Num(20)>>}
XVals == {Norm(n, 2) : n \in -1..(2 * MaxVal + 1)} \cup {NaN}

VARIABLES
    held,    \* the interpolators the caller owns, oldest first
    call,    \* the last call made: its name and arguments
    result,  \* what that call returned, or the panic it raised
    stdout   \* the number of lines written to standard output so far

vars == <<held, call, result, stdout>>

Call(op, domain, range, children, x) ==
    [x |-> x, domain |-> domain, range |-> range,
     op |-> op, children |-> children]

NoPair == <<NaN, NaN>>

Init ==
    /\ held = <<>>
    /\ call = Call("none", NoPair, NoPair, <<>>, NaN)
    /\ result = [panic |-> NoPanic]
    /\ stdout = 0

\* A leaf constructor is called and, unless it panics, the caller keeps
\* what it returns.
Construct(op, r, domain, range) ==
    /\ Len(held) < MaxHeld
    /\ NodesOf(held, 1) < MaxNodes
    /\ call' = Call(op, domain, range, <<>>, NaN)
    /\ result' = [panic |-> r.panic]
    /\ held' = IF r.panic = NoPanic THEN Append(held, r.val) ELSE held
    /\ UNCHANGED stdout

NewStep(ranges) ==
    \E d1, d2 \in DomainVals, range \in ranges :
        Construct("StepInterpolator::new",
                  StepInterpolator_new(<<d1, d2>>, range), <<d1, d2>>, range)

NewNearestNeighbor(ranges) ==
    \E d1, d2 \in DomainVals, range \in ranges :
        Construct("NearestNeighborInterpolator::new",
                  NearestNeighborInterpolator_new(<<d1, d2>>, range),
                  <<d1, d2>>, range)

NewLinear(ranges) ==
    \E d1, d2 \in DomainVals, range \in ranges :
        Construct("LinearInterpolator::new",
                  LinearInterpolator_new(<<d1, d2>>, range), <<d1, d2>>, range)

NewSigmoid(ranges) ==
    \E d1, d2 \in DomainVals, range \in ranges :
        Construct("SigmoidInterpolator::new",
                  SigmoidInterpolator_new(<<d1, d2>>, range),
                  <<d1, d2>>, range)

\* The caller moves its k newest interpolators into a Vec and calls
\* PiecewiseInterpolator::new; on a panic the Vec is dropped with them.
NewPiecewise ==
    \E k \in 0..Len(held) :
        LET children == SubSeq(held, Len(held) - k + 1, Len(held))
            rest == SubSeq(held, 1, Len(held) - k)
            r == PiecewiseInterpolator_new(children)
        IN /\ NodesOf(held, 1) < MaxNodes
           /\ Len(rest) < MaxHeld
           /\ call' = Call("PiecewiseInterpolator::new", NoPair, NoPair,
                           children, NaN)
           /\ result' = [panic |-> r.panic]
           /\ held' = IF r.panic = NoPanic THEN Append(rest, r.val) ELSE rest
           /\ UNCHANGED stdout

\* The caller evaluates its newest interpolator at x.  A panic unwinds to
\* the caller, which still owns the interpolator.
Eval ==
    \E x \in XVals :
        /\ held # <<>>
        /\ LET r == eval(held[Len(held)], x)
           IN /\ stdout + Len(r.out) <= MaxOut
              /\ call' = Call("eval", NoPair, NoPair, <<>>, x)
              /\ result' = r
              /\ stdout' = stdout + Len(r.out)
        /\ UNCHANGED held

ExceedsDomain ==
    \E x \in XVals :
        /\ held # <<>>
        /\ call' = Call("exceeds_domain", NoPair, NoPair, <<>>, x)
        /\ result' = [val |-> exceeds_domain(held[Len(held)], x),
                      panic |-> NoPanic]
        /\ UNCHANGED <<held, stdout>>

GetDomain ==
    /\ held # <<>>
    /\ call' = Call("get_domain", NoPair, NoPair, <<>>, NaN)
    /\ result' = [val |-> get_domain(held[Len(held)]), panic |-> NoPanic]
    /\ UNCHANGED <<held, stdout>>

\* Callers that build trees of interpolators and use them.
Next ==
    \/ NewStep(ComposeRanges)
    \/ NewNearestNeighbor(ComposeRanges)
    \/ NewLinear(ComposeRanges)
    \/ NewSigmoid(ComposeRanges)
    \/ NewPiecewise
    \/ Eval
    \/ ExceedsDomain
    \/ GetDomain

Spec == Init /\ [][Next]_vars

\* Callers that construct one leaf interpolator, over any range, and use it.
LeafNext ==
    \/ held = <<>> /\ NewStep(RangePairs)
    \/ held = <<>> /\ NewNearestNeighbor(RangePairs)
    \/ held = <<>> /\ NewLinear(RangePairs)
    \/ held = <<>> /\ NewSigmoid(RangePairs)
    \/ Eval
    \/ ExceedsDomain
    \/ GetDomain

LeafSpec == Init /\ [][LeafNext]_vars

\* ============================================================== claims
\* The caller's newest interpolator: the one eval, exceeds_domain and
\* get_domain are called on.
Top == held[Len(held)]

LeafConstructors ==
    {"StepInterpolator::new", "NearestNeighborInterpolator::new",
     "LinearInterpolator::new", "SigmoidInterpolator::new"}

\* What a call of eval gave its caller: the panic, or the value returned.
Outcome(r) == <<r.panic, r.val>>

\* Every interpolator of the tree t, t included, has domain low < high.
RECURSIVE DomainsValid(_)
DomainsValid(t) ==
    /\ Lt(t.domain.bound[1], t.domain.bound[2])
    /\ t.kind = "Piecewise" =>
           \A i \in 1..Len(t.interpolators) : DomainsValid(t.interpolators[i])

\* The leaves of the tree t, left to right.
RECURSIVE Leaves(_)
RECURSIVE LeavesOf(_, _)
LeavesOf(s, i) ==
    IF i > Len(s) THEN <<>> ELSE Leaves(s[i]) \o LeavesOf(s, i + 1)
Leaves(t) ==
    IF t.kind = "Piecewise" THEN LeavesOf(t.interpolators, 1) ELSE <<t>>

\* C1: every leaf constructor panics with "Invalid interval" exactly when
\* the domain it is given has low >= high, and returns otherwise.
C1_LeafConstructorRejectsBadDomain ==
    call.op \in LeafConstructors =>
        /\ Ge(call.domain[1], call.domain[2]) => result.panic = InvalidInterval
        /\ Lt(call.domain[1], call.domain[2]) => result.panic = NoPanic

\* C2: when exceeds_domain(x') is true of an interpolator, its eval gives at
\* every x = x' + e, e >= 0, what it gives at x'.
C2_UpperSaturation ==
    call.op = "eval" =>
        \A xp \in XVals :
            exceeds_domain(Top, xp) /\ Ge(call.x, xp) =>
                Outcome(result) = Outcome(eval(Top, xp))

\* C3: PiecewiseInterpolator::new panics with "Need at least one
\* interpolator." exactly on an empty Vec, with "Combined domains are not
\* closed." exactly on a non-empty Vec in which some child's domain does not
\* end where the next one's starts, and otherwise returns the composite of
\* the children in the order given, over [first low, last high].
C3_PiecewiseNewClassifies ==
    call.op = "PiecewiseInterpolator::new" =>
        LET c == call.children
            gap == \E i \in 1..(Len(c) - 1) :
                       Ne(c[i].domain.bound[2], c[i + 1].domain.bound[1])
        IN /\ result.panic = NoInterpolators <=> Len(c) = 0
           /\ result.panic = DiscontinuousDomain <=> (Len(c) > 0 /\ gap)
           /\ (Len(c) > 0 /\ ~gap) =>
                  /\ result.panic = NoPanic
                  /\ Top.kind = "Piecewise"
                  /\ Top.interpolators = c
                  /\ Top.domain.bound =
                         <<c[1].domain.bound[1], c[Len(c)].domain.bound[2]>>

C3_Witness ==
    /\ call.op = "PiecewiseInterpolator::new"
    /\ Len(call.children) = 2
    /\ result.panic = DiscontinuousDomain

\* C4: eval never panics.
C4_EvalNeverPanics ==
    call.op = "eval" => result.panic = NoPanic

\* C5: eval of a composite at x gives what the chosen child's eval gives at
\* x: the first child when x <= domain low, else the last child when
\* x >= domain high, else the first child whose domain contains x.
C5_PiecewiseDispatch ==
    (call.op = "eval" /\ Top.kind = "Piecewise") =>
        LET c == Top.interpolators
            x == call.x
            chosen ==
                IF Le(x, Top.domain.bound[1]) THEN {1}
                ELSE IF Ge(x, Top.domain.bound[2]) THEN {Len(c)}
                ELSE {i \in 1..Len(c) :
                         /\ contains(c[i].domain, x)
                         /\ \A j \in 1..(i - 1) : ~contains(c[j].domain, x)}
        IN \E i \in chosen : Outcome(result) = Outcome(eval(c[i], x))

\* C6: a leaf's eval gives at every x <= domain low what it gives at domain
\* low, and at every x >= domain high what it gives at domain high; for
\* Linear and Sigmoid these are range low and range high.
C6_LeafFlatExtension ==
    (call.op = "eval" /\ Top.kind # "Piecewise") =>
        LET lo == Top.domain.bound[1]
            hi == Top.domain.bound[2]
            clamps == Top.kind \in {"Linear", "Sigmoid"}
        IN /\ Le(call.x, lo) =>
                  /\ Outcome(result) = Outcome(eval(Top, lo))
                  /\ clamps => result.val = F(Top.range.bound[1])
           /\ Ge(call.x, hi) =>
                  /\ Outcome(result) = Outcome(eval(Top, hi))
                  /\ clamps => result.val = F(Top.range.bound[2])

\* C7: every interpolator that exists, the children of composites included,
\* has a domain with low < high.
C7_DomainInvariant ==
    \A i \in 1..Len(held) : DomainsValid(held[i])

C9_QueriesArePure ==
    [][call'.op \in {"eval", "exceeds_domain", "get_domain"} =>
           (stdout' = stdout /\ held' = held)]_vars

\* C10: a composite with a composite among its children, all of whose
\* leaves have domain low < high, gives for every x the eval, the
\* exceeds_domain and the get_domain of the composite built flat from the
\* same leaves in the same order.
Nested(t) ==
    /\ t.kind = "Piecewise"
    /\ \E i \in 1..Len(t.interpolators) : t.interpolators[i].kind = "Piecewise"

LeavesValid(t) ==
    \A i \in 1..Len(Leaves(t)) :
        Lt(Leaves(t)[i].domain.bound[1], Leaves(t)[i].domain.bound[2])

C10_NestingTransparent ==
    (held # <<>> /\ Nested(Top) /\ LeavesValid(Top)) =>
        LET flat == PiecewiseInterpolator_new(Leaves(Top))
        IN /\ flat.panic = NoPanic
           /\ call.op = "eval" =>
                  Outcome(result) = Outcome(eval(flat.val, call.x))
           /\ call.op = "exceeds_domain" =>
                  result.val = exceeds_domain(flat.val, call.x)
           /\ call.op = "get_domain" =>
                  result.val = get_domain(flat.val)

C10_Witness ==
    /\ held # <<>>
    /\ Nested(Top)
    /\ \A i \in 1..Len(Top.interpolators) :
           Top.interpolators[i].kind = "Piecewise"
    /\ LeavesValid(Top)
    /\ Len(Leaves(Top)) = 2
    /\ call.op = "eval"
    /\ result.panic = NoPanic
    /\ Lt(Top.domain.bound[1], call.x)
    /\ Lt(call.x, Top.domain.bound[2])

\* ------------------------------------------- how far the failures reach
\* C1 fails for LinearInterpolator::new only; C2, C6 and C7 fail only
\* through a LinearInterpolator given a domain with low >= high; C4 and C5
\* fail only at x = NaN.  The statements below leave those cases out.
C1_ExceptLinear ==
    call.op # "LinearInterpolator::new" => C1_LeafConstructorRejectsBadDomain

C2_GivenValidLeaves ==
    (call.op = "eval" /\ LeavesValid(Top)) =>
        \A xp \in XVals :
            exceeds_domain(Top, xp) /\ Ge(call.x, xp) =>
                Outcome(result) = Outcome(eval(Top, xp))

C4_ExceptNaN ==
    (call.op = "eval" /\ ~IsNaN(call.x)) => result.panic = NoPanic

C5_ExceptNaN ==
    ~(call.op = "eval" /\ IsNaN(call.x)) => C5_PiecewiseDispatch

C6_GivenValidDomain ==
    (held # <<>> /\ Lt(Top.domain.bound[1], Top.domain.bound[2])) =>
        C6_LeafFlatExtension

C7_GivenValidLeaves ==
    \A i \in 1..Len(held) : LeavesValid(held[i]) => DomainsValid(held[i])

====
